---------------------------- MODULE Spec2Model ----------------------------
(***************************************************************************)
(* Model of the Mollang highlighter core: the pattern catalog              *)
(* (src/core/keywords.py MollangKeywords), the keyword registry            *)
(* (src/core/keywords.py KeywordManager), the rule compiler and the        *)
(* classification engine (src/core/highlighter.py).                        *)
(*                                                                         *)
(* Text is a sequence of glyphs (one UTF-16 code unit each, which is what  *)
(* QRegularExpression offsets and QSyntaxHighlighter.setFormat count).     *)
(* A Hangul glyph is written by its romanisation, capitalised ("Mol",      *)
(* "Ru", "Ah"); an ASCII character is written as itself ("a", "0", "?").   *)
(* A keyword is a sequence of glyphs, a color a sequence of characters, a  *)
(* category name a string (romanised too).                                 *)
(***************************************************************************)
EXTENDS Integers, Sequences, FiniteSets, TLC

VARIABLES
    heap,                \* the category dict objects; the index is the object's identity
    _keywords,           \* KeywordManager._keywords: the outer dict, <<[name, ref]>> in insertion order
    _change_callbacks,   \* KeywordManager._change_callbacks: the observers, in registration order
    got,                 \* the dict get_keywords() returned last, as its holder (a caller, or the
                         \* keyword dialog's registry) has it now: <<[name, ref]>>
    lastOp,              \* the last call made, with its arguments
    result,              \* what the last call returned
    before,              \* the registry content at the start of the last call
    notified,            \* the observer invocations made by the last call, in order
    nops,                \* the number of calls made so far
    text,                \* the text block handed to highlightBlock
    hl_keywords,         \* MollangSyntaxHighlighter._keywords (content)
    highlighting_rules,  \* MollangSyntaxHighlighter.highlighting_rules
    formats,             \* the block's per-character format, as set by setFormat
    highlighted          \* highlightBlock has run on the block with the current rules

vars == <<heap, _keywords, _change_callbacks, got, lastOp, result, before, notified, nops,
          text, hl_keywords, highlighting_rules, formats, highlighted>>

regVars == <<heap, _keywords, _change_callbacks, got, lastOp, result, before, notified, nops>>
hlVars == <<text, hl_keywords, highlighting_rules, formats, highlighted>>

(***************************************************************************)
(* Bounds of the model.                                                    *)
(***************************************************************************)
MaxLen == 3          \* texts over Glyphs are enumerated up to this length
MaxOps == 2          \* registry calls per run
MaxObservers == 2    \* observers registered with on_change

(***************************************************************************)
(* Colors (src/constants.py SyntaxColors), as character sequences.         *)
(***************************************************************************)
SyntaxColors_VARIABLE == <<"#", "0", "0", "F", "F", "F", "F">>
SyntaxColors_KEYWORD_SIMPLE == <<"#", "2", "1", "9", "6", "F", "3">>
SyntaxColors_KEYWORD_COMPLEX == <<"#", "F", "F", "6", "B", "3", "5">>
SyntaxColors_OPERATOR_SINGLE == <<"#", "F", "F", "C", "1", "0", "7">>
SyntaxColors_OPERATOR_MULTI == <<"#", "F", "F", "9", "8", "0", "0">>
SyntaxColors_HEAP_MEMORY == <<"#", "E", "9", "1", "E", "6", "3">>
SyntaxColors_STRING_IO == <<"#", "0", "0", "E", "6", "7", "6">>
SyntaxColors_FUNCTION_NAME == <<"#", "4", "C", "A", "F", "5", "0">>
SyntaxColors_EXIT_FORMAT == <<"#", "9", "C", "2", "7", "B", "0">>
SyntaxColors_PUNCTUATION == <<"#", "9", "E", "9", "E", "9", "E">>

HexDigits == {"0", "1", "2", "3", "4", "5", "6", "7", "8", "9",
              "a", "b", "c", "d", "e", "f", "A", "B", "C", "D", "E", "F"}

\* '#' followed by six hexadecimal digits (spec.md, KeywordCategory.color).
IsHexColor(c) ==
    /\ Len(c) = 7
    /\ c[1] = "#"
    /\ \A k \in 2..7 : c[k] \in HexDigits

(***************************************************************************)
(* Regular expressions, as QRegularExpression (PCRE2) matches them:        *)
(* backtracking, greedy quantifiers, alternatives tried left to right.     *)
(* Ends(re, s, i) is the sequence of offsets at which a match of re that   *)
(* starts at offset i of s can end, in the order backtracking tries them;  *)
(* the match found is the first.                                           *)
(***************************************************************************)
Chr(c) == [t |-> "chr", c |-> c]
Cls(S) == [t |-> "cls", s |-> S]
Cat(rs) == [t |-> "cat", rs |-> rs]
Alt(rs) == [t |-> "alt", rs |-> rs]
Rep(r, min, max) == [t |-> "rep", r |-> r, min |-> min, max |-> max]   \* max = -1: unbounded
Plus(r) == Rep(r, 1, -1)
WordB == [t |-> "wb"]
\* (?!r) if the lookahead were dropped from the pattern
NegLook_dropped(r) == [t |-> "cat", rs |-> <<>>]
NegLook(r) == [t |-> "nla", r |-> r]

\* re.escape(word) compiled: the literal glyphs of word, in order.
Lit(word) == Cat([k \in 1..Len(word) |-> Chr(word[k])])

\* \bword\b
WholeWord(word) == Cat(<<WordB, Lit(word), WordB>>)

\* \w of a QRegularExpression built without UseUnicodePropertiesOption:
\* ASCII letters, digits and underscore only; Hangul glyphs are not \w.
AsciiWordChars == {"a", "b", "x", "0", "1", "_"}
IsWordChar(c) == c \in AsciiWordChars

WordAt(s, k) == k >= 1 /\ k <= Len(s) /\ IsWordChar(s[k])

Dec(n) == IF n > 0 THEN n - 1 ELSE n

RECURSIVE Ends(_, _, _)
RECURSIVE EndsFrom(_, _, _)
RECURSIVE EndsAlt(_, _, _)

Ends(re, s, i) ==
    CASE re.t = "chr" -> IF i < Len(s) /\ s[i + 1] = re.c THEN <<i + 1>> ELSE <<>>
      [] re.t = "cls" -> IF i < Len(s) /\ s[i + 1] \in re.s THEN <<i + 1>> ELSE <<>>
      [] re.t = "wb" -> IF WordAt(s, i) # WordAt(s, i + 1) THEN <<i>> ELSE <<>>
      [] re.t = "nla" -> IF Ends(re.r, s, i) = <<>> THEN <<i>> ELSE <<>>
      [] re.t = "cat" ->
            IF re.rs = <<>> THEN <<i>>
            ELSE EndsFrom(Cat(Tail(re.rs)), s, Ends(Head(re.rs), s, i))
      [] re.t = "alt" -> EndsAlt(re.rs, s, i)
      [] re.t = "rep" ->
            LET more == IF re.max = 0 THEN <<>>
                        ELSE EndsFrom(Rep(re.r, Dec(re.min), Dec(re.max)), s,
                                      SelectSeq(Ends(re.r, s, i), LAMBDA e : e > i))
            IN  IF re.min = 0 THEN more \o <<i>> ELSE more

\* the ends of re from each of the offsets in starts, in order
EndsFrom(re, s, starts) ==
    IF starts = <<>> THEN <<>>
    ELSE Ends(re, s, Head(starts)) \o EndsFrom(re, s, Tail(starts))

EndsAlt(rs, s, i) ==
    IF rs = <<>> THEN <<>>
    ELSE Ends(Head(rs), s, i) \o EndsAlt(Tail(rs), s, i)

NoMatch == [start |-> -1, length |-> 0]

\* the leftmost match at or after offset pos; nonEmptyAt is an offset at
\* which an empty match is not accepted (PCRE2_NOTEMPTY_ATSTART), or -1
RECURSIVE Search(_, _, _, _)
Search(re, s, pos, nonEmptyAt) ==
    IF pos > Len(s) THEN NoMatch
    ELSE LET es == IF pos = nonEmptyAt
                   THEN SelectSeq(Ends(re, s, pos), LAMBDA e : e > pos)
                   ELSE Ends(re, s, pos)
         IN  IF es # <<>> THEN [start |-> pos, length |-> Head(es) - pos]
             ELSE Search(re, s, pos + 1, nonEmptyAt)

\* QRegularExpression.globalMatch(text): the matches the iterator yields,
\* leftmost first, none overlapping; after an empty match the next one is
\* searched from the same offset but must not be empty there.
RECURSIVE MatchesFrom(_, _, _, _)
MatchesFrom(re, s, pos, nonEmptyAt) ==
    LET m == Search(re, s, pos, nonEmptyAt)
    IN  IF m.start < 0 THEN <<>>
        ELSE <<m>> \o MatchesFrom(re, s, m.start + m.length,
                                  IF m.length = 0 THEN m.start ELSE -1)

globalMatch(re, s) == MatchesFrom(re, s, 0, -1)


(***************************************************************************)
(* The pattern catalog (MollangKeywords).                                  *)
(***************************************************************************)
\* get_default_keywords(): <<[name, words, color]>> in the dict's order
get_default_keywords ==
    << [name |-> "jeeo_kiwodeu",
        words |-> << <<"Eun", "?", "Haeng">>, <<"Teol", "!", "Ja">>, <<"Dol", "!", "Ja">>, <<"Jit", "!", "Ja">> >>,
        color |-> SyntaxColors_KEYWORD_COMPLEX],
       [name |-> "jeompeu_kiwodeu",
        words |-> << <<"Ga", "!", "Ja">>, <<"Ga", "Ja", "!">> >>,
        color |-> SyntaxColors_KEYWORD_COMPLEX],
       [name |-> "ipchullyeok_kiwodeu",
        words |-> << <<"Ru">>, <<"Ru", "?">>, <<"Ru", "!">>, <<"Ah">> >>,
        color |-> SyntaxColors_KEYWORD_SIMPLE],
       [name |-> "jongnyo_kiwodeu",
        words |-> << <<"0", "Siot", "0">> >>,
        color |-> SyntaxColors_EXIT_FORMAT],
       [name |-> "hamsumyeong",
        words |-> << <<"Mwek", "Rwek">>, <<"Mwek", "Rwaek">>, <<"Mal", "Rang">>, <<"Meo", "Ri">>, <<"Mu", "Reup">>,
                     <<"Mang", "Ryeong">>, <<"Mae", "Rip">>, <<"Mu", "Ri">>, <<"Mil", "Rap">> >>,
        color |-> SyntaxColors_FUNCTION_NAME] >>

\* (?:Mol|Mo Oh+ Ol|Mo Oh+ Ul), the variable names
Variable ==
    Alt(<< Chr("Mol"),
           Cat(<<Chr("Mo"), Plus(Chr("Oh")), Chr("Ol")>>),
           Cat(<<Chr("Mo"), Plus(Chr("Oh")), Chr("Ul")>>) >>)

\* get_complex_patterns()["complex_keywords"]
complex_keywords ==
    << Lit(<<"Eun", "?", "Haeng">>), Lit(<<"Teol", "!", "Ja">>), Lit(<<"Dol", "!", "Ja">>),
       Lit(<<"Jit", "!", "Ja">>), Lit(<<"Ga", "!", "Ja">>), Lit(<<"Ga", "Ja", "!">>),
       Lit(<<"Ru", "?">>), Lit(<<"Ru", "!">>) >>

\* get_complex_patterns()["multi_operators"]
multi_operators ==
    << Rep(Chr("."), 4, -1), Rep(Chr("."), 3, 3), Rep(Chr("."), 2, 2),
       Rep(Chr("?"), 2, -1), Rep(Chr("!"), 2, -1) >>

\* get_complex_patterns()["single_operators"]
single_operators ==
    << Chr("?"), Chr("!"), Chr("."), Chr("*"), Chr("~"), Chr("="), Chr("&") >>

\* get_complex_patterns()["string_io"]
string_io ==
    << Cat(<<Variable, Chr("~"), Variable, Chr("Ru"), Chr("?")>>),
       Cat(<<Variable, Chr("~"), Variable, Chr("Ru"), NegLook(Chr("?"))>>) >>

\* get_complex_patterns()["heap_memory"]
heap_memory ==
    << Cat(<<Chr("&"), Variable, Chr("~"), Variable>>),
       Cat(<<Variable, Cls({"*", "~", "="}), Variable>>) >>

\* get_complex_patterns()["float_format"]
float_format ==
    << Cat(<<Plus(Cls({"?", "!", ".", ","})), Chr("Ru"), Chr("!")>>) >>

\* the patterns of create_variable_rules()
variable_patterns ==
    << Cat(<<WordB, Chr("Mol"), WordB>>),
       Cat(<<WordB, Chr("Mo"), Plus(Chr("Oh")), Chr("Ol"), WordB>>),
       Cat(<<WordB, Chr("Mo"), Plus(Chr("Oh")), Chr("Ul"), WordB>>) >>

(***************************************************************************)
(* The rules (HighlightingRule, MollangHighlightingRules).                 *)
(***************************************************************************)
InvalidQColor == <<>>

\* QColor(color): the color named by the string, or the invalid color
QColor(color) == IF IsHexColor(color) THEN color ELSE InvalidQColor

\* HighlightingRule(pattern, color, bold): the pattern and its QTextCharFormat
HighlightingRule(pattern, color, bold) ==
    [pattern |-> pattern, format |-> [color |-> QColor(color), bold |-> bold]]

RulesOf(patterns, color) ==
    [k \in 1..Len(patterns) |-> HighlightingRule(patterns[k], color, TRUE)]

create_variable_rules == RulesOf(variable_patterns, SyntaxColors_VARIABLE)
create_string_io_rules == RulesOf(string_io, SyntaxColors_STRING_IO)
create_heap_memory_rules == RulesOf(heap_memory, SyntaxColors_HEAP_MEMORY)
create_float_format_rules == RulesOf(float_format, SyntaxColors_EXIT_FORMAT)
create_complex_keyword_rules == RulesOf(complex_keywords, SyntaxColors_KEYWORD_COMPLEX)

create_operator_rules ==
    RulesOf(multi_operators, SyntaxColors_OPERATOR_MULTI)
        \o RulesOf(single_operators, SyntaxColors_OPERATOR_SINGLE)

create_function_rules ==
    LET function_names == get_default_keywords[5].words
    IN  RulesOf([k \in 1..Len(function_names) |-> WholeWord(function_names[k])],
                SyntaxColors_FUNCTION_NAME)

create_simple_keyword_rules ==
    RulesOf(<<WholeWord(<<"Ru">>), WholeWord(<<"Ah">>)>>, SyntaxColors_KEYWORD_SIMPLE)
        \o <<HighlightingRule(Lit(<<"0", "Siot", "0">>), SyntaxColors_EXIT_FORMAT, TRUE)>>

create_punctuation_rules ==
    <<HighlightingRule(Cls({"(", ")", ","}), SyntaxColors_PUNCTUATION, FALSE)>>

\* the rules _setup_highlighting_rules collects before the custom keywords
BuiltinRules ==
    create_string_io_rules \o create_heap_memory_rules \o create_float_format_rules
        \o create_complex_keyword_rules \o create_operator_rules \o create_function_rules
        \o create_variable_rules \o create_simple_keyword_rules \o create_punctuation_rules

\* _is_default_keyword(word): word is in some category of the default keywords
_is_default_keyword(word) ==
    \E c \in 1..Len(get_default_keywords) :
        \E k \in 1..Len(get_default_keywords[c].words) :
            get_default_keywords[c].words[k] = word

\* the rules _add_custom_keyword_rules appends for one category
RECURSIVE CustomRulesOfWords(_, _)
CustomRulesOfWords(words, color) ==
    IF words = <<>> THEN <<>>
    ELSE (IF _is_default_keyword(Head(words)) THEN <<>>
          ELSE <<HighlightingRule(WholeWord(Head(words)), color, TRUE)>>)
         \o CustomRulesOfWords(Tail(words), color)

\* _add_custom_keyword_rules(): keywords is <<[name, words, color]>>
RECURSIVE _add_custom_keyword_rules(_)
_add_custom_keyword_rules(keywords) ==
    IF keywords = <<>> THEN <<>>
    ELSE CustomRulesOfWords(Head(keywords).words, Head(keywords).color)
         \o _add_custom_keyword_rules(Tail(keywords))

\* _setup_highlighting_rules if the custom keywords were added first
_setup_highlighting_rules_custom_first(keywords) ==
    _add_custom_keyword_rules(keywords) \o BuiltinRules

_setup_highlighting_rules(keywords) == BuiltinRules \o _add_custom_keyword_rules(keywords)

(***************************************************************************)
(* The classification engine (MollangSyntaxHighlighter.highlightBlock).    *)
(***************************************************************************)
\* a character no setFormat call touched
NoFormat == [color |-> <<"default">>, bold |-> FALSE]

ClearFormats(s) == [k \in 1..Len(s) |-> NoFormat]

Min(a, b) == IF a < b THEN a ELSE b

\* setFormat if it kept the format a character already has
setFormat_keeps_first(fs, start, count, format) ==
    [k \in 1..Len(fs) |->
        IF k > start /\ k <= start + count /\ fs[k] = NoFormat THEN format ELSE fs[k]]

\* QSyntaxHighlighter.setFormat(start, count, format) on the block's formats:
\* the characters at offsets start .. start + count - 1 that the block has
setFormat(fs, start, count, format) ==
    IF start < 0 \/ start >= Len(fs) THEN fs
    ELSE LET end == Min(start + count, Len(fs))
         IN  SubSeq(fs, 1, start) \o [k \in 1..(end - start) |-> format]
                 \o SubSeq(fs, end + 1, Len(fs))

\* the while loop over one rule's match iterator
RECURSIVE ApplyMatches(_, _, _)
ApplyMatches(fs, matches, format) ==
    IF matches = <<>> THEN fs
    ELSE ApplyMatches(setFormat(fs, Head(matches).start, Head(matches).length, format),
                      Tail(matches), format)

\* one pass of the for loop: every match of the rule gets the rule's format
ApplyRule(fs, rule, s) == ApplyMatches(fs, globalMatch(rule.pattern, s), rule.format)

\* the for loop over rules[lo..hi], in order (the first half, then the second)
RECURSIVE ApplyRules(_, _, _, _, _)
ApplyRules(fs, rules, lo, hi, s) ==
    IF fs = <<>> \/ lo > hi THEN fs
    ELSE IF lo = hi THEN ApplyRule(fs, rules[lo], s)
    ELSE LET mid == (lo + hi) \div 2
         IN  ApplyRules(ApplyRules(fs, rules, lo, mid, s), rules, mid + 1, hi, s)

\* highlightBlock(text) on a block whose formats Qt has cleared
highlightBlock(rules, s) == ApplyRules(ClearFormats(s), rules, 1, Len(rules), s)


(***************************************************************************)
(* Payloads: the values callers hand to set_keywords / update_keywords.    *)
(* A payload is a JSON-like value: its type, and for a dict its items in   *)
(* order, each a name and a value with its own type, keys and fields.      *)
(***************************************************************************)
Category(words, color) ==
    [type |-> "dict", keys |-> {"words", "color"},
     wordsType |-> "list", words |-> words, colorType |-> "str", color |-> color]

Dict(items) == [type |-> "dict", items |-> items]

\* a registry content <<[name, words, color]>> as a payload
AsPayload(content) ==
    Dict([k \in 1..Len(content) |->
            [name |-> content[k].name,
             data |-> Category(content[k].words, content[k].color)]])

\* the content <<[name, words, color]>> of a payload that passed validation
ContentOf(payload) ==
    [k \in 1..Len(payload.items) |->
        [name |-> payload.items[k].name,
         words |-> payload.items[k].data.words,
         color |-> payload.items[k].data.color]]

\* MollangKeywords.validate_keyword_data(keywords)
validate_keyword_data(keywords) ==
    /\ keywords.type = "dict"
    /\ \A k \in 1..Len(keywords.items) :
          LET data == keywords.items[k].data
          IN  /\ data.type = "dict"
              /\ "words" \in data.keys /\ "color" \in data.keys
              /\ data.wordsType = "list"
              /\ data.colorType = "str"

Red == <<"#", "F", "F", "0", "0", "0", "0">>            \* KeywordEditDialog's default color
NotHex == <<"#", "Z", "Z", "Z", "Z", "Z", "Z">>

\* {"X": {"words": ["a", "a"], "color": "#ZZZZZZ"}}
PayloadDupBadColor == Dict(<<[name |-> "X", data |-> Category(<< <<"a">>, <<"a">> >>, NotHex)]>>)
\* {"X": {"words": ["a", "a"], "color": "#FF0000"}}
PayloadDup == Dict(<<[name |-> "X", data |-> Category(<< <<"a">>, <<"a">> >>, Red)]>>)
\* {"X": {"words": ["a"], "color": "#FF0000"}}
PayloadX == Dict(<<[name |-> "X", data |-> Category(<< <<"a">> >>, Red)]>>)
\* {"X": {"words": ["a"]}}
PayloadNoColor ==
    Dict(<<[name |-> "X",
            data |-> [type |-> "dict", keys |-> {"words"}, wordsType |-> "list",
                      words |-> << <<"a">> >>, colorType |-> "missing", color |-> <<>>]]>>)
\* []
PayloadNotDict == [type |-> "list", items |-> <<>>]
\* the default keywords and a category X with the words "a", "." and "Mol~Mol"
PayloadCustom ==
    AsPayload(get_default_keywords
              \o <<[name |-> "X", words |-> << <<"a">>, <<".">>, <<"Mol", "~", "Mol">> >>, color |-> Red]>>)
\* the default keywords with the color of the function-name category changed
PayloadFunctionsRed == AsPayload([get_default_keywords EXCEPT ![5].color = Red])

(***************************************************************************)
(* The keyword registry (KeywordManager).  The registry's dict maps a      *)
(* category name to a category dict object; get_keywords() and             *)
(* set_keywords() copy the outer dict only (dict.copy() is shallow), so    *)
(* the category objects are kept on a heap and named by reference.         *)
(***************************************************************************)
Names(kw) == {kw[k].name : k \in 1..Len(kw)}

Elems(q) == {q[k] : k \in 1..Len(q)}

\* kw[name], for a name in the dict
RefOf(kw, name) == kw[CHOOSE k \in 1..Len(kw) : kw[k].name = name].ref

\* del kw[name]
DelKey(kw, name) == SelectSeq(kw, LAMBDA e : e.name # name)

\* list.remove(word): the first occurrence goes
RECURSIVE ListRemove(_, _)
ListRemove(words, word) ==
    IF words = <<>> THEN <<>>
    ELSE IF Head(words) = word THEN Tail(words)
    ELSE <<Head(words)>> \o ListRemove(Tail(words), word)

\* what a dict <<[name, ref]>> holds: <<[name, words, color]>>
Content(hp, kw) ==
    [k \in 1..Len(kw) |->
        [name |-> kw[k].name, words |-> hp[kw[k].ref].words, color |-> hp[kw[k].ref].color]]

\* a content as a mapping (dict equality does not look at the order)
Mapping(content) == Elems(content)

\* the callbacks up to the first one that raises
RECURSIVE UpToRaise(_)
UpToRaise(calls) ==
    IF calls = <<>> THEN <<>>
    ELSE IF Head(calls).raised THEN <<Head(calls)>>
    ELSE <<Head(calls)>> \o UpToRaise(Tail(calls))

\* _notify_change if the loop ended at the first callback that raises
_notify_change_until_raise(hp, kw, cbs) ==
    UpToRaise([k \in 1..Len(cbs) |->
                 [cb |-> k, raised |-> (cbs[k] = "raises"), keywords |-> Content(hp, kw)]])

\* _notify_change(): every callback is called with the live dict, in
\* registration order; an exception it raises is caught and printed
_notify_change(hp, kw, cbs) ==
    [k \in 1..Len(cbs) |->
        [cb |-> k, raised |-> (cbs[k] = "raises"), keywords |-> Content(hp, kw)]]

\* add_keyword(category, word, color) on the registry (hp, kw) with the observers cbs
add_keyword_always_appends(hp, kw, cbs, category, word, color) ==
    LET kw1 == IF category \in Names(kw) THEN kw
               ELSE Append(kw, [name |-> category, ref |-> Len(hp) + 1])
        hp1 == IF category \in Names(kw) THEN hp
               ELSE Append(hp, [words |-> <<>>, color |-> color])
        r == RefOf(kw1, category)
        hp2 == [hp1 EXCEPT ![r] = [words |-> Append(hp1[r].words, word), color |-> color]]
    IN  [hp |-> hp2, kw |-> kw1, ret |-> "True", notified |-> _notify_change(hp2, kw1, cbs)]

add_keyword(hp, kw, cbs, category, word, color) ==
    LET kw1 == IF category \in Names(kw) THEN kw
               ELSE Append(kw, [name |-> category, ref |-> Len(hp) + 1])
        hp1 == IF category \in Names(kw) THEN hp
               ELSE Append(hp, [words |-> <<>>, color |-> color])
        r == RefOf(kw1, category)
    IN  IF word \notin Elems(hp1[r].words)
        THEN LET hp2 == [hp1 EXCEPT ![r] = [words |-> Append(hp1[r].words, word),
                                            color |-> color]]
             IN  [hp |-> hp2, kw |-> kw1, ret |-> "True",
                  notified |-> _notify_change(hp2, kw1, cbs)]
        ELSE [hp |-> hp1, kw |-> kw1, ret |-> "False", notified |-> <<>>]

\* remove_keyword(category, word)
remove_keyword_keeps_empty(hp, kw, cbs, category, word) ==
    IF category \in Names(kw) /\ word \in Elems(hp[RefOf(kw, category)].words)
    THEN LET r == RefOf(kw, category)
             hp1 == [hp EXCEPT ![r].words = ListRemove(hp[r].words, word)]
         IN  [hp |-> hp1, kw |-> kw, ret |-> "True", notified |-> _notify_change(hp1, kw, cbs)]
    ELSE [hp |-> hp, kw |-> kw, ret |-> "False", notified |-> <<>>]

remove_keyword(hp, kw, cbs, category, word) ==
    IF category \in Names(kw) /\ word \in Elems(hp[RefOf(kw, category)].words)
    THEN LET r == RefOf(kw, category)
             hp1 == [hp EXCEPT ![r].words = ListRemove(hp[r].words, word)]
             kw1 == IF hp1[r].words = <<>> THEN DelKey(kw, category) ELSE kw
         IN  [hp |-> hp1, kw |-> kw1, ret |-> "True", notified |-> _notify_change(hp1, kw1, cbs)]
    ELSE [hp |-> hp, kw |-> kw, ret |-> "False", notified |-> <<>>]

\* update_keyword if it looked at both ends before it changed anything
update_keyword_checks_first(hp, kw, cbs, old_category, old_word, new_category, new_word, new_color) ==
    IF /\ old_category \in Names(kw) /\ old_word \in Elems(hp[RefOf(kw, old_category)].words)
       /\ ~(new_category \in Names(kw) /\ new_word \in Elems(hp[RefOf(kw, new_category)].words)
            /\ <<new_category, new_word>> # <<old_category, old_word>>)
    THEN LET removed == remove_keyword(hp, kw, cbs, old_category, old_word)
             added == add_keyword(removed.hp, removed.kw, cbs, new_category, new_word, new_color)
         IN  [hp |-> added.hp, kw |-> added.kw, ret |-> added.ret,
              notified |-> removed.notified \o added.notified]
    ELSE [hp |-> hp, kw |-> kw, ret |-> "False", notified |-> <<>>]

\* update_keyword(old_category, old_word, new_category, new_word, new_color)
update_keyword(hp, kw, cbs, old_category, old_word, new_category, new_word, new_color) ==
    LET removed == remove_keyword(hp, kw, cbs, old_category, old_word)
        added == add_keyword(removed.hp, removed.kw, cbs, new_category, new_word, new_color)
    IN  [hp |-> added.hp, kw |-> added.kw, ret |-> added.ret,
         notified |-> removed.notified \o added.notified]

\* set_keywords if it called the observers before it replaced the dict
set_keywords_notifies_first(hp, kw, cbs, new_keywords) ==
    IF validate_keyword_data(new_keywords)
    THEN LET n == Len(new_keywords.items)
             hp1 == hp \o [k \in 1..n |-> [words |-> new_keywords.items[k].data.words,
                                           color |-> new_keywords.items[k].data.color]]
             kw1 == [k \in 1..n |-> [name |-> new_keywords.items[k].name, ref |-> Len(hp) + k]]
         IN  [hp |-> hp1, kw |-> kw1, ret |-> "True", notified |-> _notify_change(hp, kw, cbs)]
    ELSE [hp |-> hp, kw |-> kw, ret |-> "False", notified |-> <<>>]

\* set_keywords(new_keywords) with a dict the caller builds for the call:
\* its category objects are new on the heap
set_keywords(hp, kw, cbs, new_keywords) ==
    IF validate_keyword_data(new_keywords)
    THEN LET n == Len(new_keywords.items)
             hp1 == hp \o [k \in 1..n |-> [words |-> new_keywords.items[k].data.words,
                                           color |-> new_keywords.items[k].data.color]]
             kw1 == [k \in 1..n |-> [name |-> new_keywords.items[k].name, ref |-> Len(hp) + k]]
         IN  [hp |-> hp1, kw |-> kw1, ret |-> "True", notified |-> _notify_change(hp1, kw1, cbs)]
    ELSE [hp |-> hp, kw |-> kw, ret |-> "False", notified |-> <<>>]

\* set_keywords if it left out the last category of the dict it is handed
set_keywords_held_drops_last(hp, kw, cbs, d) ==
    LET d1 == SubSeq(d, 1, Len(d) - 1)
    IN  [hp |-> hp, kw |-> d1, ret |-> "True", notified |-> _notify_change(hp, d1, cbs)]

\* set_keywords(d) with a dict d = <<[name, ref]>> of category objects that
\* are on the heap already (a dict get_keywords() returned): every value of
\* it is a dict with a words list and a color string, so validation passes;
\* the registry takes a copy of the outer dict
set_keywords_held(hp, kw, cbs, d) ==
    [hp |-> hp, kw |-> d, ret |-> "True", notified |-> _notify_change(hp, d, cbs)]

\* get_keywords(): self._keywords.copy(), a new outer dict of the same objects
get_keywords(kw) == kw

(***************************************************************************)
(* Object identities are kept canonical: the objects no dict refers to are *)
(* dropped and the others numbered in the order the registry's dict and    *)
(* then the caller's dict refer to them.                                   *)
(***************************************************************************)
RECURSIVE Dedupe(_, _)
Dedupe(q, seen) ==
    IF q = <<>> THEN <<>>
    ELSE IF Head(q) \in seen THEN Dedupe(Tail(q), seen)
    ELSE <<Head(q)>> \o Dedupe(Tail(q), seen \cup {Head(q)})

Live(kw, gt) == Dedupe([k \in 1..Len(kw) |-> kw[k].ref] \o [k \in 1..Len(gt) |-> gt[k].ref], {})

IndexOf(q, x) == CHOOSE k \in 1..Len(q) : q[k] = x

Renumber(d, live) == [k \in 1..Len(d) |-> [name |-> d[k].name, ref |-> IndexOf(live, d[k].ref)]]

\* the next state holds the heap hp, the registry dict kw and the caller's dict gt
Store(hp, kw, gt) ==
    LET live == Live(kw, gt)
    IN  /\ heap' = [k \in 1..Len(live) |-> hp[live[k]]]
        /\ _keywords' = Renumber(kw, live)
        /\ got' = Renumber(gt, live)

\* the highlighter as a value: its keywords, its rules and the block's formats
Highlighter ==
    [keywords |-> hl_keywords, rules |-> highlighting_rules,
     formats |-> formats, highlighted |-> highlighted]

\* update_keywords if it did not compile the rules again
update_keywords_on_keeps_rules(hl, new_keywords, s) ==
    IF validate_keyword_data(new_keywords)
    THEN [keywords |-> ContentOf(new_keywords), rules |-> hl.rules,
          formats |-> highlightBlock(hl.rules, s), highlighted |-> TRUE]
    ELSE hl

\* update_keywords if the compiled rules were added to the rules it had
update_keywords_on_appends_rules(hl, new_keywords, s) ==
    IF validate_keyword_data(new_keywords)
    THEN LET rules == hl.rules \o _setup_highlighting_rules(ContentOf(new_keywords))
         IN  [keywords |-> ContentOf(new_keywords), rules |-> rules,
              formats |-> highlightBlock(rules, s), highlighted |-> TRUE]
    ELSE hl

\* MollangSyntaxHighlighter.update_keywords(new_keywords) on the highlighter
\* hl of the block s, rehighlight() included
update_keywords_on(hl, new_keywords, s) ==
    IF validate_keyword_data(new_keywords)
    THEN LET rules == _setup_highlighting_rules(ContentOf(new_keywords))
         IN  [keywords |-> ContentOf(new_keywords), rules |-> rules,
              formats |-> highlightBlock(rules, s), highlighted |-> TRUE]
    ELSE hl

\* MainWindowController._on_keywords_changed(keywords): the editor hands the
\* dict to its highlighter
_on_keywords_changed(hl, keywords, s) == update_keywords_on(hl, AsPayload(keywords), s)

\* the highlighter after the observer calls of one registry call, in order:
\* the observer "editor" is MainWindowController._on_keywords_changed
RECURSIVE Delivered(_, _, _, _)
Delivered(hl, calls, cbs, s) ==
    IF calls = <<>> THEN hl
    ELSE Delivered(IF cbs[Head(calls).cb] = "editor"
                   THEN _on_keywords_changed(hl, Head(calls).keywords, s)
                   ELSE hl,
                   Tail(calls), cbs, s)

\* a call on the registry returned: out is what it computed, gt the dict
\* held outside the registry from now on
ReturnedTo(op, out, gt) ==
    /\ Store(out.hp, out.kw, gt)
    /\ lastOp' = op
    /\ result' = out.ret
    /\ notified' = out.notified
    /\ before' = Content(heap, _keywords)
    /\ nops' = nops + 1
    /\ UNCHANGED _change_callbacks
    /\ \E hl \in {Delivered(Highlighter, out.notified, _change_callbacks, text)} :
           /\ hl_keywords' = hl.keywords
           /\ highlighting_rules' = hl.rules
           /\ formats' = hl.formats
           /\ highlighted' = hl.highlighted
    /\ UNCHANGED text

Returned(op, out) == ReturnedTo(op, out, got)

(***************************************************************************)
(* The calls.                                                              *)
(***************************************************************************)
CategoryArgs == {"jongnyo_kiwodeu", ""}
WordArgs == { <<"0", "Siot", "0">>, <<"a">> }
ColorArgs == {Red, NotHex}
ObserverKinds == {"returns", "raises"}
CallerCategories == CategoryArgs \cup {"X"}      \* the entries the caller changes in a dict it holds
SetPayloads == {PayloadDupBadColor, PayloadDup, PayloadX, PayloadNoColor}

\* KeywordManager.__init__, then the observers cbs registered: nothing handed
\* out, no call made
RegInitWith(cbs) ==
    /\ heap = [k \in 1..Len(get_default_keywords) |->
                 [words |-> get_default_keywords[k].words, color |-> get_default_keywords[k].color]]
    /\ _keywords = [k \in 1..Len(get_default_keywords) |->
                      [name |-> get_default_keywords[k].name, ref |-> k]]
    /\ _change_callbacks = cbs
    /\ got = <<>>
    /\ lastOp = [op |-> "init"]
    /\ result = "None"
    /\ before = get_default_keywords
    /\ notified = <<>>
    /\ nops = 0

\* KeywordManager.__init__ with no observer
RegInit == RegInitWith(<<>>)

AddKeyword(category, word, color) ==
    /\ nops < MaxOps
    /\ Returned([op |-> "add", category |-> category, word |-> word, color |-> color],
                add_keyword(heap, _keywords, _change_callbacks, category, word, color))

RemoveKeyword(category, word) ==
    /\ nops < MaxOps
    /\ Returned([op |-> "remove", category |-> category, word |-> word],
                remove_keyword(heap, _keywords, _change_callbacks, category, word))

UpdateKeyword(old_category, old_word, new_category, new_word, new_color) ==
    /\ nops < MaxOps
    /\ Returned([op |-> "update", old_category |-> old_category, old_word |-> old_word,
                 category |-> new_category, word |-> new_word, color |-> new_color],
                update_keyword(heap, _keywords, _change_callbacks,
                               old_category, old_word, new_category, new_word, new_color))

SetKeywords(new_keywords) ==
    /\ nops < MaxOps
    /\ Returned([op |-> "set", payload |-> new_keywords],
                set_keywords(heap, _keywords, _change_callbacks, new_keywords))

\* set_keywords(d) with the dict d that get_keywords() returned before; d is
\* fresh when it is what get_keywords() returns now (the same objects under
\* the same names), which makes the call set_keywords(get_keywords())
SetKeywordsHeld ==
    /\ nops < MaxOps
    /\ got # <<>>
    /\ Returned([op |-> "set_held", held |-> Content(heap, got), fresh |-> (got = _keywords)],
                set_keywords_held(heap, _keywords, _change_callbacks, got))

\* set_keywords(get_keywords()): the dict handed over is the one get_keywords()
\* returns for the call, which the caller does not keep
SetGetKeywords ==
    /\ nops < MaxOps
    /\ Returned([op |-> "set_get"],
                set_keywords_held(heap, _keywords, _change_callbacks, get_keywords(_keywords)))

\* d = get_keywords(): the caller holds the returned dict from now on
GetKeywords ==
    /\ nops < MaxOps
    /\ Store(heap, _keywords, get_keywords(_keywords))
    /\ lastOp' = [op |-> "get"]
    /\ result' = "dict"
    /\ notified' = <<>>
    /\ before' = Content(heap, _keywords)
    /\ nops' = nops + 1
    /\ UNCHANGED _change_callbacks
    /\ UNCHANGED hlVars

\* the caller changes the dict d that get_keywords() returned: del d[name],
\* d[name]['words'].append(word), d[name]['words'].remove(word) or
\* d[name]['color'] = color
CallerMutates(what, k, word, color) ==
    /\ nops < MaxOps
    /\ k \in 1..Len(got)
    /\ got[k].name \in CallerCategories
    /\ LET r == got[k].ref
       IN  CASE what = "del" -> Store(heap, _keywords, DelKey(got, got[k].name))
             [] what = "append" ->
                   Store([heap EXCEPT ![r].words = Append(@, word)], _keywords, got)
             [] what = "remove" ->
                   /\ word \in Elems(heap[r].words)
                   /\ Store([heap EXCEPT ![r].words = ListRemove(@, word)], _keywords, got)
             [] what = "color" -> Store([heap EXCEPT ![r].color = color], _keywords, got)
    /\ lastOp' = [op |-> "caller", what |-> what, category |-> got[k].name]
    /\ result' = "None"
    /\ notified' = <<>>
    /\ before' = Content(heap, _keywords)
    /\ nops' = nops + 1
    /\ UNCHANGED _change_callbacks
    /\ UNCHANGED hlVars

\* on_change(callback); the observers register before the first call
\* (MainWindowController.__init__ registers its observer on construction)
on_change(callback) ==
    /\ nops = 0
    /\ Len(_change_callbacks) < MaxObservers
    /\ _change_callbacks' = Append(_change_callbacks, callback)
    /\ UNCHANGED <<heap, _keywords, got, lastOp, result, before, notified, nops>>
    /\ UNCHANGED hlVars

(***************************************************************************)
(* The highlighter on one text block.                                      *)
(***************************************************************************)
Glyphs == {"Mol", "Ru", "~", "?", ".", "!", "a"}

RECURSIVE SeqsUpTo(_, _)
SeqsUpTo(S, n) ==
    IF n = 0 THEN {<<>>}
    ELSE LET shorter == SeqsUpTo(S, n - 1)
         IN  shorter \cup {Append(q, g) : q \in shorter, g \in S}

\* lines of the sample programs of src/constants.py
SampleTexts ==
    { <<"?", "?", ".", "?", "?", "?", "?", "Ru", "!">>,
      <<"Mol", "~", "Mol", "Ru", "?">>,
      <<"Mol", "~", "Mol", "Ru">>,
      <<"Mol", "*", "Mo", "Ol", "?">>,
      <<"&", "Mol", "~", "Mol", "Ru">>,
      <<"0", "Siot", "0", "?">>,
      <<"Meo", "Ri", " ", "Eun", "?", "Haeng", " ", "Mol", ",", "Mo", "Ol", ",", "Mo", "Oh", "Oh", "Ol">>,
      <<"Mol", "?", ".", ".", ".", ".", "?", "?", " ", "Eun", "?", "Haeng">> }

\* further texts: the run of four dots, variables of the open-ended family,
\* glyphs and a function name between ASCII word characters
ExtraTexts ==
    { <<".", ".", ".", ".">>,
      <<"Mol", "*", "Mo", "Oh", "Ol", "?">>,
      <<"&", "Mol", "~", "Mo", "Oh", "Ul", "Ru">>,
      <<"a", " ", "a", "Mol", "a", ".", ".", ".">>,
      <<"a", "Meo", "Ri", "a">> }

Texts == SampleTexts \cup ExtraTexts \cup SeqsUpTo(Glyphs, MaxLen)

HLPayloads ==
    {AsPayload(get_default_keywords), PayloadCustom, PayloadFunctionsRed, PayloadDupBadColor,
     PayloadNotDict}

\* MollangSyntaxHighlighter.__init__ on a document holding the block s:
\* the rules are compiled, the block is not highlighted yet
HLInit(s) ==
    /\ text = s
    /\ hl_keywords = get_default_keywords
    /\ highlighting_rules = _setup_highlighting_rules(get_default_keywords)
    /\ formats = ClearFormats(s)
    /\ highlighted = FALSE

\* Qt (re)highlights the block: it clears the block's formats and calls highlightBlock(text)
Rehighlight ==
    /\ formats' = highlightBlock(highlighting_rules, text)
    /\ highlighted' = TRUE
    /\ UNCHANGED <<text, hl_keywords, highlighting_rules>>
    /\ UNCHANGED regVars

\* MollangSyntaxHighlighter.update_keywords(new_keywords), rehighlight() included
update_keywords(new_keywords) ==
    /\ \E hl \in {update_keywords_on(Highlighter, new_keywords, text)} :
           /\ hl_keywords' = hl.keywords
           /\ highlighting_rules' = hl.rules
           /\ formats' = hl.formats
           /\ highlighted' = hl.highlighted
    /\ UNCHANGED text
    /\ UNCHANGED regVars

InitHL == RegInit /\ \E s \in Texts : HLInit(s)

NextHL ==
    \/ Rehighlight
    \/ \E p \in HLPayloads : update_keywords(p)

SpecHL == InitHL /\ [][NextHL]_vars

(***************************************************************************)
(* The registry on its own: calls in any order, at most MaxOps of them.    *)
(***************************************************************************)
Init == RegInit /\ HLInit(<<>>)

\* the calls on the registry and what the caller does to a dict it was handed
Calls ==
    \/ \E c \in CategoryArgs, w \in WordArgs, col \in ColorArgs : AddKeyword(c, w, col)
    \/ \E c \in CategoryArgs \cup {"X"}, w \in WordArgs : RemoveKeyword(c, w)
    \/ \E oc \in CategoryArgs, ow \in WordArgs, c \in CategoryArgs, w \in WordArgs :
          UpdateKeyword(oc, ow, c, w, Red)
    \/ \E p \in SetPayloads : SetKeywords(p)
    \/ SetKeywordsHeld
    \/ SetGetKeywords
    \/ GetKeywords
    \/ \E what \in {"del", "append", "remove", "color"}, k \in 1..Len(got),
          w \in WordArgs, col \in ColorArgs : CallerMutates(what, k, w, col)

Next ==
    \/ Calls
    \/ \E cb \in ObserverKinds : on_change(cb)

Spec == Init /\ [][Next]_vars

(***************************************************************************)
(* The configuration validator (ConfigValidator).  A string is a sequence  *)
(* of characters.                                                          *)
(***************************************************************************)
\* str.strip() on a string whose only whitespace is the blank
RECURSIVE LStrip(_)
LStrip(str) == IF str # <<>> /\ Head(str) = " " THEN LStrip(Tail(str)) ELSE str

RECURSIVE RStrip(_)
RStrip(str) ==
    IF str # <<>> /\ str[Len(str)] = " " THEN RStrip(SubSeq(str, 1, Len(str) - 1)) ELSE str

\* the digits of an int literal: hex digits, with single underscores between them
IsDigitRun(str) ==
    /\ str # <<>>
    /\ str[1] \in HexDigits /\ str[Len(str)] \in HexDigits
    /\ \A k \in 1..Len(str) :
          \/ str[k] \in HexDigits
          \/ str[k] = "_" /\ str[k + 1] # "_"

\* int(str, 16) returns (it raises ValueError otherwise): blanks around the
\* literal are stripped, then a sign, then a 0x or 0X prefix (an underscore
\* may follow it) are optional before the digits
int16_parses(str) ==
    LET stripped == RStrip(LStrip(str))
        unsigned == IF stripped # <<>> /\ Head(stripped) \in {"+", "-"}
                    THEN Tail(stripped) ELSE stripped
        prefixed == Len(unsigned) >= 2 /\ unsigned[1] = "0" /\ unsigned[2] \in {"x", "X"}
        afterPrefix == SubSeq(unsigned, 3, Len(unsigned))
        digits == IF ~prefixed THEN unsigned
                  ELSE IF afterPrefix # <<>> /\ Head(afterPrefix) = "_" THEN Tail(afterPrefix)
                  ELSE afterPrefix
    IN  IsDigitRun(digits)

\* ConfigValidator.is_valid_color(color), color a value of type colorType
is_valid_color(colorType, color) ==
    /\ colorType = "str"
    /\ color # <<>> /\ color[1] = "#" /\ Len(color) = 7
    /\ int16_parses(Tail(color))

\* every element of the words list is a str (a payload says so when one is not)
WordsAreStrings(data) == IF "wordsOfStr" \in DOMAIN data THEN data.wordsOfStr ELSE TRUE

\* ConfigValidator.is_valid_keyword_category(category_data)
is_valid_keyword_category(category_data) ==
    /\ category_data.type = "dict"
    /\ {"words", "color"} \subseteq category_data.keys
    /\ category_data.wordsType = "list"
    /\ WordsAreStrings(category_data)
    /\ is_valid_color(category_data.colorType, category_data.color)

\* ConfigValidator.validate_keywords_data(keywords): the names of a parsed
\* JSON object are strings, as the names of a payload are
validate_keywords_data(keywords) ==
    /\ keywords.type = "dict"
    /\ \A k \in 1..Len(keywords.items) : is_valid_keyword_category(keywords.items[k].data)

\* {"X": {"words": ["a"], "color": "#+12345"}}
PayloadSignedColor ==
    Dict(<<[name |-> "X", data |-> Category(<< <<"a">> >>, <<"#", "+", "1", "2", "3", "4", "5">>)]>>)
\* {"X": {"words": "a", "color": "#FF0000"}}
PayloadWordsNotList ==
    Dict(<<[name |-> "X",
            data |-> [type |-> "dict", keys |-> {"words", "color"}, wordsType |-> "str",
                      words |-> << <<"a">> >>, colorType |-> "str", color |-> Red]]>>)
\* {"X": {"words": [1], "color": "#FF0000"}}
PayloadWordNotStr ==
    Dict(<<[name |-> "X",
            data |-> [type |-> "dict", keys |-> {"words", "color"}, wordsType |-> "list",
                      words |-> << <<"1">> >>, wordsOfStr |-> FALSE,
                      colorType |-> "str", color |-> Red]]>>)

\* the configuration file: there is none, it is not JSON, or it holds a JSON value
ConfigFiles ==
    { [kind |-> "missing"], [kind |-> "not_json"] }
    \cup { [kind |-> "json", value |-> p] :
             p \in {PayloadNotDict, PayloadNoColor, PayloadWordsNotList, PayloadWordNotStr,
                    PayloadDupBadColor, PayloadSignedColor, PayloadX} }

\* ConfigManager.load_keywords() on the file: (success, keywords)
load_keywords(file) ==
    IF file.kind = "json" THEN [success |-> TRUE, keywords |-> file.value]
    ELSE [success |-> FALSE, keywords |-> "None"]

\* ConfigService.load_keywords_with_validation() on the file: (success, keywords)
load_keywords_with_validation(file) ==
    LET loaded == load_keywords(file)
    IN  IF ~loaded.success THEN [success |-> FALSE, keywords |-> "None"]
        ELSE IF ~validate_keywords_data(loaded.keywords) THEN [success |-> FALSE, keywords |-> "None"]
        ELSE [success |-> TRUE, keywords |-> loaded.keywords]

\* MainWindowController.load_config() with the file: on success the
\* registry is set to the keywords loaded; load_config returns None
load_config(hp, kw, cbs, file) ==
    LET loaded == load_keywords_with_validation(file)
    IN  IF loaded.success
        THEN [set_keywords(hp, kw, cbs, loaded.keywords) EXCEPT !.ret = "None"]
        ELSE [hp |-> hp, kw |-> kw, ret |-> "None", notified |-> <<>>]

LoadConfig(file) ==
    /\ nops < MaxOps
    /\ Returned([op |-> "load", file |-> file,
                 success |-> load_keywords_with_validation(file).success],
                load_config(heap, _keywords, _change_callbacks, file))

\* the strings handed to is_valid_color
ColorStrings ==
    { <<"#", a, b, "1", "2", "3", c>> :
          a \in {"1", "+", "-", " ", "0", "_", "g", "F"},
          b \in {"x", "X", "_", "1", "a", " "},
          c \in {"5", "_", " ", "f"} }
    \cup { Red, NotHex, <<>>, <<"#">>, <<"#", "F", "F", "0", "0", "0">>,
           <<"#", "F", "F", "0", "0", "0", "0", "0">>, <<"F", "F", "0", "0", "0", "0", "0">>,
           <<"#", "+", "1", "2", "3", "4", "5">>, <<"#", "-", "1", "2", "3", "4", "5">>,
           <<"#", "0", "x", "1", "2", "3", "4">>, <<"#", "1", "_", "2", "3", "4", "5">>,
           <<"#", " ", "1", "2", "3", "4", "5">> }

\* is_valid_color(color) is called and returns
IsValidColor(color) ==
    /\ lastOp' = [op |-> "is_valid_color", color |-> color]
    /\ result' = IF is_valid_color("str", color) THEN "True" ELSE "False"
    /\ UNCHANGED <<heap, _keywords, _change_callbacks, got, before, notified, nops>>
    /\ UNCHANGED hlVars

NextColor == \E color \in ColorStrings : IsValidColor(color)

SpecColor == Init /\ [][NextColor]_vars

(***************************************************************************)
(* The main window: MainWindowController.__init__ makes the registry and   *)
(* registers _on_keywords_changed on it, so every change of the registry   *)
(* reaches the editor's highlighter.                                       *)
(***************************************************************************)
MainText == <<"a", ".", "a">>

\* the editor's observer is the only one the program registers
InitMain == RegInitWith(<<"editor">>) /\ HLInit(MainText)

NextMain ==
    \/ Calls
    \/ \E file \in ConfigFiles : LoadConfig(file)

SpecMain == InitMain /\ [][NextMain]_vars

(***************************************************************************)
(* The keyword dialog (MainWindowController.open_keyword_config and        *)
(* KeywordConfigDialog).  The dialog has a registry of its own, with no    *)
(* observer; got is that registry's dict while the dialog is open.  The    *)
(* dialog is modal: the main window makes no call while it is open.        *)
(***************************************************************************)
DialogOpen == lastOp.op \in {"dialog_open", "dialog_add", "dialog_remove", "dialog_update"}

\* open_keyword_config up to dialog.exec(): KeywordConfigDialog.__init__ makes
\* a KeywordManager and calls set_keywords(current_keywords) on it with the
\* dict the main registry's get_keywords() returned
OpenKeywordConfig ==
    /\ ~DialogOpen
    /\ \E out \in {set_keywords_held(heap, <<>>, <<>>, get_keywords(_keywords))} :
           Store(out.hp, _keywords, out.kw)
    /\ lastOp' = [op |-> "dialog_open"]
    /\ result' = "None"
    /\ notified' = <<>>
    /\ before' = Content(heap, _keywords)
    /\ UNCHANGED <<_change_callbacks, nops>>
    /\ UNCHANGED hlVars

\* a call on the dialog's registry returned: out is what it computed
DialogReturned(op, out) ==
    /\ DialogOpen
    /\ nops < MaxOps
    /\ Store(out.hp, _keywords, out.kw)
    /\ lastOp' = op
    /\ result' = out.ret
    /\ notified' = out.notified
    /\ before' = Content(heap, _keywords)
    /\ nops' = nops + 1
    /\ UNCHANGED _change_callbacks
    /\ UNCHANGED hlVars

\* KeywordControlPanel._add_keyword, the edit dialog accepted
DialogAdd(category, word, color) ==
    DialogReturned([op |-> "dialog_add", category |-> category, word |-> word, color |-> color],
                   add_keyword(heap, got, <<>>, category, word, color))

\* KeywordControlPanel._delete_keyword, the question answered Yes
DialogDelete(category, word) ==
    DialogReturned([op |-> "dialog_remove", category |-> category, word |-> word],
                   remove_keyword(heap, got, <<>>, category, word))

\* KeywordControlPanel._edit_keyword, the edit dialog accepted
DialogEdit(old_category, old_word, new_category, new_word, new_color) ==
    DialogReturned([op |-> "dialog_update", old_category |-> old_category, old_word |-> old_word,
                    category |-> new_category, word |-> new_word, color |-> new_color],
                   update_keyword(heap, got, <<>>,
                                  old_category, old_word, new_category, new_word, new_color))

\* the dialog is accepted: open_keyword_config calls set_keywords on the main
\* registry with dialog.get_keywords(); the dialog is gone afterwards
DialogAccept ==
    /\ DialogOpen
    /\ nops < MaxOps
    /\ ReturnedTo([op |-> "dialog_accept"],
                  set_keywords_held(heap, _keywords, _change_callbacks, get_keywords(got)), <<>>)

\* the dialog is rejected: open_keyword_config calls nothing more
DialogCancel ==
    /\ DialogOpen
    /\ Store(heap, _keywords, <<>>)
    /\ lastOp' = [op |-> "dialog_cancel"]
    /\ result' = "None"
    /\ notified' = <<>>
    /\ before' = Content(heap, _keywords)
    /\ UNCHANGED <<_change_callbacks, nops>>
    /\ UNCHANGED hlVars

NextDialog ==
    \/ ~DialogOpen /\ \E c \in CategoryArgs, w \in WordArgs, col \in ColorArgs : AddKeyword(c, w, col)
    \/ ~DialogOpen /\ \E c \in CategoryArgs, w \in WordArgs : RemoveKeyword(c, w)
    \/ ~DialogOpen /\ \E p \in SetPayloads : SetKeywords(p)
    \/ OpenKeywordConfig
    \/ \E c \in CategoryArgs, w \in WordArgs, col \in ColorArgs : DialogAdd(c, w, col)
    \/ \E c \in CategoryArgs, w \in WordArgs : DialogDelete(c, w)
    \/ \E oc \in CategoryArgs, ow \in WordArgs, c \in CategoryArgs, w \in WordArgs :
          DialogEdit(oc, ow, c, w, Red)
    \/ DialogAccept
    \/ DialogCancel

SpecDialog == InitMain /\ [][NextDialog]_vars

(***************************************************************************)
(* Properties of the classification engine, checked under SpecHL.          *)
(***************************************************************************)
\* the matches of every rule of rules[lo..hi], in rule order
RECURSIVE AllMatches(_, _, _, _)
AllMatches(rules, lo, hi, s) ==
    IF lo > hi THEN <<>>
    ELSE IF lo = hi THEN <<globalMatch(rules[lo].pattern, s)>>
    ELSE LET mid == (lo + hi) \div 2
         IN  AllMatches(rules, lo, mid, s) \o AllMatches(rules, mid + 1, hi, s)

\* the character at index k (1-based) lies in one of the matches ms
Covers(ms, k) == \E j \in 1..Len(ms) : k > ms[j].start /\ k <= ms[j].start + ms[j].length

Max(S) == CHOOSE x \in S : \A y \in S : y <= x

\* the rules that have a match covering character k, given every rule's matches
Covering(all, k) == {r \in 1..Len(all) : Covers(all[r], k)}

\* C1: once highlightBlock has run, every character has the format of the
\* last rule of the compiled list that has a match covering it, and a
\* character no match covers has no format set
C1_LastMatchingRuleWins ==
    highlighted =>
        LET all == AllMatches(highlighting_rules, 1, Len(highlighting_rules), text)
        IN  /\ Len(formats) = Len(text)
            /\ \A k \in 1..Len(text) :
                  formats[k] = IF Covering(all, k) = {} THEN NoFormat
                               ELSE highlighting_rules[Max(Covering(all, k))].format

\* a highlighted block with a character that rules of different formats
\* cover and a character that no rule covers
C1_Witness ==
    /\ highlighted
    /\ LET all == AllMatches(highlighting_rules, 1, Len(highlighting_rules), text)
       IN  /\ \E k \in 1..Len(text) : Covering(all, k) = {}
           /\ \E k \in 1..Len(text) :
                 \E r \in Covering(all, k) :
                     highlighting_rules[r].format # highlighting_rules[Max(Covering(all, k))].format

DefaultRules == _setup_highlighting_rules(get_default_keywords)

FormatOf(color) == [color |-> color, bold |-> TRUE]

\* the block has been highlighted with the default rule list and holds s
Classified(s) == highlighted /\ highlighting_rules = DefaultRules /\ text = s

\* C2: with the default rules, every character of "...." ends with the
\* multi-operator format
C2_FourDotsAreMultiOperator ==
    Classified(<<".", ".", ".", ".">>) =>
        \A k \in 1..4 : formats[k] = FormatOf(SyntaxColors_OPERATOR_MULTI)

\* C3: with the default rules, every character of Mol~MolRu? ends with the
\* string-I/O format
C3_StringInputIsStringIO ==
    Classified(<<"Mol", "~", "Mol", "Ru", "?">>) =>
        \A k \in 1..5 : formats[k] = FormatOf(SyntaxColors_STRING_IO)

\* C4: with the default rules, every character of Mol~MolRu ends with the
\* string-I/O format
C4_StringOutputIsStringIO ==
    Classified(<<"Mol", "~", "Mol", "Ru">>) =>
        \A k \in 1..4 : formats[k] = FormatOf(SyntaxColors_STRING_IO)

\* the index of the first custom keyword rule of the compiled list
FirstCustom == Len(highlighting_rules) - Len(_add_custom_keyword_rules(hl_keywords)) + 1

\* the custom keyword rules that have a match covering character k
CustomCovering(all, k) == {r \in Covering(all, k) : r >= FirstCustom}

\* C17: the compiled list is the built-in rules and then the custom keyword
\* rules, and a character that a match of a custom rule covers ends with
\* the format of the last custom rule covering it
C17_CustomRulesHaveFinalSay ==
    /\ SubSeq(highlighting_rules, 1, FirstCustom - 1) = BuiltinRules
    /\ SubSeq(highlighting_rules, FirstCustom, Len(highlighting_rules))
          = _add_custom_keyword_rules(hl_keywords)
    /\ highlighted =>
          LET all == AllMatches(highlighting_rules, 1, Len(highlighting_rules), text)
          IN  \A k \in 1..Len(text) :
                 CustomCovering(all, k) # {} =>
                     formats[k] = highlighting_rules[Max(CustomCovering(all, k))].format

\* a highlighted block with a character that a custom rule and a built-in
\* rule of another format both cover
C17_Witness ==
    /\ highlighted
    /\ LET all == AllMatches(highlighting_rules, 1, Len(highlighting_rules), text)
       IN  \E k \in 1..Len(text) :
              /\ CustomCovering(all, k) # {}
              /\ \E r \in Covering(all, k) :
                    /\ r < FirstCustom
                    /\ highlighting_rules[r].format
                          # highlighting_rules[Max(CustomCovering(all, k))].format

\* the words of the built-in function-name category
FunctionNames == Elems(get_default_keywords[5].words)

\* the (category, word) entries of the highlighter's keywords, as <<c, k>>
KeywordEntries ==
    {ck \in (1..Len(hl_keywords)) \X (1..20) : ck[2] <= Len(hl_keywords[ck[1]].words)}

\* C18: after the built-in rules the compiled list has one whole-word rule,
\* with the category's color, for every (category, word) of the keywords
\* whose word is not a built-in function name, and no other rule
C18_RuleForEveryNonFunctionWord ==
    LET custom == SubSeq(highlighting_rules, Len(BuiltinRules) + 1, Len(highlighting_rules))
        wanted == {ck \in KeywordEntries : hl_keywords[ck[1]].words[ck[2]] \notin FunctionNames}
    IN  /\ Len(custom) = Cardinality(wanted)
        /\ \A ck \in wanted :
              HighlightingRule(WholeWord(hl_keywords[ck[1]].words[ck[2]]),
                               hl_keywords[ck[1]].color, TRUE) \in Elems(custom)

\* C19: no match of the string-output pattern ends right before a "?", and
\* at no offset do the string-input and the string-output pattern both match
C19_StringOutputNotInsideInput ==
    LET input == highlighting_rules[1].pattern
        output == highlighting_rules[2].pattern
    IN  \A i \in 0..Len(text) :
            /\ \A k \in 1..Len(Ends(output, text, i)) :
                  LET e == Ends(output, text, i)[k]
                  IN  ~(e < Len(text) /\ text[e + 1] = "?")
            /\ ~(Ends(input, text, i) # <<>> /\ Ends(output, text, i) # <<>>)

\* a highlighted block that holds a string-input occurrence
C19_Witness ==
    /\ highlighted
    /\ \E i \in 0..Len(text) : Ends(highlighting_rules[1].pattern, text, i) # <<>>

(***************************************************************************)
(* Properties of the registry, checked under Spec.                         *)
(***************************************************************************)
Current == Content(heap, _keywords)

HasCategory(content, category) == \E k \in 1..Len(content) : content[k].name = category

Entry(content, category) == content[CHOOSE k \in 1..Len(content) : content[k].name = category]

HasWord(content, category, word) ==
    HasCategory(content, category) /\ word \in Elems(Entry(content, category).words)

\* C5: add_keyword with a word the category already holds returns False,
\* leaves the registry (the category's color too) as it was and calls no
\* observer
C5_DuplicateAddIsNoOp ==
    (lastOp.op = "add" /\ HasWord(before, lastOp.category, lastOp.word)) =>
        /\ result = "False"
        /\ Current = before
        /\ notified = <<>>

\* a duplicate add, with a color other than the category's, on a registry
\* that has an observer
C5_Witness ==
    /\ lastOp.op = "add"
    /\ HasWord(before, lastOp.category, lastOp.word)
    /\ Entry(before, lastOp.category).color # lastOp.color
    /\ _change_callbacks # <<>>

\* C6: remove_keyword of the only word of a category succeeds, deletes the
\* category key, and calls every observer once with a dict that no longer
\* has the category
C6_RemovingLastWordDeletesCategory ==
    (lastOp.op = "remove" /\ HasCategory(before, lastOp.category)
        /\ Entry(before, lastOp.category).words = <<lastOp.word>>) =>
        /\ result = "True"
        /\ ~HasCategory(Current, lastOp.category)
        /\ Len(notified) = Len(_change_callbacks)
        /\ \A k \in 1..Len(notified) :
              notified[k].cb = k /\ ~HasCategory(notified[k].keywords, lastOp.category)

\* the only word of a category has been removed, on a registry with an observer
C6_Witness ==
    /\ lastOp.op = "remove"
    /\ HasCategory(before, lastOp.category)
    /\ Entry(before, lastOp.category).words = <<lastOp.word>>
    /\ _change_callbacks # <<>>

\* a payload with a category whose color is not '#' and six hex digits
HasInvalidColor(payload) ==
    /\ payload.type = "dict"
    /\ \E k \in 1..Len(payload.items) :
          LET data == payload.items[k].data
          IN  data.colorType # "str" \/ ~IsHexColor(data.color)

\* C7: set_keywords with a payload that has an invalid color returns
\* False, leaves the registry as it was and calls no observer
C7_SetRejectsInvalidColor ==
    (lastOp.op = "set" /\ HasInvalidColor(lastOp.payload)) =>
        /\ result = "False"
        /\ Current = before
        /\ notified = <<>>

\* C8: every category of the registry has a non-empty name and a color
\* that is '#' and six hex digits
C8_NamesAndColorsValid ==
    \A k \in 1..Len(Current) : Current[k].name # "" /\ IsHexColor(Current[k].color)

NoDuplicates(words) == \A i, j \in 1..Len(words) : i # j => words[i] # words[j]

\* C9: no category of the registry holds the same word twice
C9_NoDuplicateWords ==
    \A k \in 1..Len(Current) : NoDuplicates(Current[k].words)

\* C10: whatever the caller does to the dict get_keywords() returned, the
\* registry holds what it held before
C10_ReturnedCopyIsIsolated ==
    lastOp.op = "caller" => Mapping(Current) = Mapping(before)

\* the last call handed set_keywords the dict get_keywords() returns
IsRoundTrip == lastOp.op = "set_get" \/ (lastOp.op = "set_held" /\ lastOp.fresh)

SingleStepOps == {"add", "remove", "set", "set_held", "set_get"}

\* the observers are called in registration order, all of them, once for
\* every step of the call that notified
CalledInTurn ==
    LET n == Len(_change_callbacks)
    IN  /\ n > 0 /\ Len(notified) % n = 0
        /\ \A k \in 1..Len(notified) : notified[k].cb = ((k - 1) % n) + 1

\* what the last call changed is in the registry
Committed ==
    CASE lastOp.op = "add" ->
            /\ ~HasWord(before, lastOp.category, lastOp.word)
            /\ HasWord(Current, lastOp.category, lastOp.word)
            /\ Entry(Current, lastOp.category).color = lastOp.color
      [] lastOp.op = "remove" ->
            /\ HasWord(before, lastOp.category, lastOp.word)
            /\ LET rest == ListRemove(Entry(before, lastOp.category).words, lastOp.word)
               IN  IF rest = <<>> THEN ~HasCategory(Current, lastOp.category)
                   ELSE Entry(Current, lastOp.category).words = rest
      [] lastOp.op = "set" -> Current = ContentOf(lastOp.payload)
      [] lastOp.op = "set_held" -> Current = lastOp.held
      [] lastOp.op = "set_get" -> Current = before
      [] OTHER -> TRUE

\* C12: when an observer raises, every observer is still called in turn,
\* the ones of the last step with the mapping the registry now holds, the
\* change is in the registry and add, remove and set return True
C12_RaisingObserverIsIsolated ==
    (\E k \in 1..Len(notified) : notified[k].raised) =>
        /\ CalledInTurn
        /\ \A k \in 1..Len(notified) :
              k > Len(notified) - Len(_change_callbacks) => notified[k].keywords = Current
        /\ lastOp.op \in SingleStepOps => (result = "True" /\ Committed)

\* the first observer raised and the observer registered after it was called
C12_Witness ==
    /\ Len(notified) >= 2
    /\ notified[1].raised
    /\ ~notified[2].raised
    /\ lastOp.op \in SingleStepOps

\* C13: a successful add, remove or set calls every observer once, in
\* registration order, with the mapping the registry holds after the call;
\* a failed one calls no observer
C13_NotifiesOncePerSuccess ==
    lastOp.op \in SingleStepOps =>
        IF result = "True"
        THEN /\ Len(notified) = Len(_change_callbacks)
             /\ \A k \in 1..Len(notified) :
                   notified[k].cb = k /\ notified[k].keywords = Current
        ELSE result = "False" /\ notified = <<>>

\* a set_keywords that replaced the registry, with two observers
C13_Witness ==
    /\ lastOp.op = "set"
    /\ result = "True"
    /\ Mapping(Current) # Mapping(before)
    /\ Len(_change_callbacks) = 2

\* C14: a set, add, remove or update that returns False leaves the registry
\* mapping as it was
C14_FailureChangesNothing ==
    (lastOp.op \in SingleStepOps \cup {"update"} /\ result = "False") =>
        Mapping(Current) = Mapping(before)

\* the last call is a remove or an update that names a category the registry
\* does not have, or a word its category does not have
NamesMissingEntry ==
    \/ lastOp.op = "remove" /\ ~HasWord(before, lastOp.category, lastOp.word)
    \/ lastOp.op = "update" /\ ~HasWord(before, lastOp.old_category, lastOp.old_word)

\* C15: a remove or an update of an entry the registry does not have returns
\* False, leaves the registry mapping as it was and calls no observer
C15_MissingEntryIsNoOp ==
    NamesMissingEntry =>
        /\ result = "False"
        /\ Mapping(Current) = Mapping(before)
        /\ notified = <<>>

\* the last call is an update of an entry the registry has to an entry,
\* another one, that the registry has too
UpdateOntoExisting ==
    /\ lastOp.op = "update"
    /\ HasWord(before, lastOp.old_category, lastOp.old_word)
    /\ HasWord(before, lastOp.category, lastOp.word)
    /\ <<lastOp.old_category, lastOp.old_word>> # <<lastOp.category, lastOp.word>>

C20_RulesFollowRegistry ==
    (lastOp.op \in SingleStepOps \cup {"update"} /\ result = "True") =>
        /\ highlighting_rules = _setup_highlighting_rules(Current)
        /\ highlighted
        /\ formats = highlightBlock(highlighting_rules, text)

\* an update whose two steps both notified, on a block the new rules format
\* otherwise than the default rules do
C20_Witness ==
    /\ lastOp.op = "update"
    /\ result = "True"
    /\ Len(notified) = 2 * Len(_change_callbacks)
    /\ notified[1].keywords # Current
    /\ formats # highlightBlock(DefaultRules, text)

\* C22: is_valid_color accepts a string exactly when it is '#' and six hex
\* digits
C22_ColorIsHashAndSixHexDigits ==
    lastOp.op = "is_valid_color" => (result = "True" <=> IsHexColor(lastOp.color))

\* the file holds a JSON value that is not a mapping of category names to
\* {words: list of strings, color: '#' and six hex digits}
StructurallyInvalid(file) ==
    /\ file.kind = "json"
    /\ \/ file.value.type # "dict"
       \/ \E k \in 1..Len(file.value.items) :
             LET data == file.value.items[k].data
             IN  \/ data.type # "dict"
                 \/ ~({"words", "color"} \subseteq data.keys)
                 \/ data.wordsType # "list"
                 \/ ~WordsAreStrings(data)
                 \/ data.colorType # "str"
                 \/ ~IsHexColor(data.color)

\* C21: a load of a structurally invalid file reports failure, leaves the
\* registry mapping as it was and calls no observer
C21_InvalidFileIsRejected ==
    (lastOp.op = "load" /\ StructurallyInvalid(lastOp.file)) =>
        /\ ~lastOp.success
        /\ Mapping(Current) = Mapping(before)
        /\ notified = <<>>

StandsAlone(s, m, g) ==
    /\ (m.start > 0 => s[m.start] # g)
    /\ (m.start + m.length < Len(s) => s[m.start + m.length + 1] # g)

\* the matches in s of the rules of create_operator_rules whose pattern is re
OperatorMatches(re, s) ==
    LET rs == {r \in 1..Len(create_operator_rules) : create_operator_rules[r].pattern = re}
    IN  UNION {{ms[j] : j \in 1..Len(ms)} : ms \in {globalMatch(create_operator_rules[r].pattern, s) : r \in rs}}

\* C24: in a classified block, every match of the single-operator rule of
\* '?', '!' or '.' is a glyph with no equal glyph next to it, and every
\* match of the three-dot and of the two-dot rule is a run of dots with no
\* dot next to it
C24_OperatorRulesMatchWholeTokens ==
    highlighted =>
        /\ \A g \in {"?", "!", "."} :
               \A m \in OperatorMatches(Chr(g), text) : StandsAlone(text, m, g)
        /\ \A n \in {2, 3} :
               \A m \in OperatorMatches(Rep(Chr("."), n, n), text) :
                   m.length = n /\ StandsAlone(text, m, ".")

\* C25: the dialog's registry shares no category object with the main
\* registry: an add, remove or update made in the open dialog leaves the
\* main registry's mapping as it was, and when the dialog has been
\* cancelled the highlighter's rules are the rules compiled from the
\* mapping the main registry holds
C25_DialogEditsLeaveMainRegistry ==
    /\ lastOp.op \in {"dialog_add", "dialog_remove", "dialog_update"} =>
           Mapping(Current) = Mapping(before)
    /\ lastOp.op = "dialog_cancel" =>
           highlighting_rules = _setup_highlighting_rules(Current)

\* C26: when an update has returned success, every observer has been
\* called once, and each call was made with the mapping the registry holds
\* after the update
C26_UpdateNotifiesOnceWithFinal ==
    (lastOp.op = "update" /\ result = "True") =>
        /\ Len(notified) = Len(_change_callbacks)
        /\ \A k \in 1..Len(notified) : Mapping(notified[k].keywords) = Mapping(Current)

\* C27: when remove_keyword(category, word) has returned success, word is
\* not among the words of category
C27_RemovedWordIsGone ==
    (lastOp.op = "remove" /\ result = "True") =>
        ~HasWord(Current, lastOp.category, lastOp.word)

\* C28: in a classified block, every whole-word occurrence of a built-in
\* function name has the color the highlighter's keywords give the category
\* that holds the word, and it does not have the function-name format when
\* no category of the keywords holds the word
C28_SeededEditsTakeEffect ==
    highlighted =>
        \A w \in FunctionNames :
            LET ms == globalMatch(WholeWord(w), text)
                cats == {c \in 1..Len(hl_keywords) : w \in Elems(hl_keywords[c].words)}
            IN  \A j \in 1..Len(ms) :
                    \A k \in (ms[j].start + 1)..(ms[j].start + ms[j].length) :
                        IF cats = {}
                        THEN formats[k] # FormatOf(SyntaxColors_FUNCTION_NAME)
                        ELSE \E c \in cats : formats[k] = FormatOf(QColor(hl_keywords[c].color))

=============================================================================
